---- MODULE Spec2Model ----
(***************************************************************************)
(* Gravity bridge, cosmos side: the outgoing transfer pool of the keeper   *)
(* (CreateSendToEthereum, CancelSendToEthereum, the unbatched-send store   *)
(* and its iterators), the checkpoint encoding of BatchTx / LogicCallTx,    *)
(* and the Confirm messages (ConfirmBatch, ConfirmLogicCall, ConfirmValset).*)
(***************************************************************************)
EXTENDS Integers, Sequences, FiniteSets, TLC

\* ------------------------------------------------------------------ bounds
\* ids handed out before the model stops submitting
MaxSubmits == 2
\* every request submitted is for SendAmount; its fee is one of 0..MaxFee
SendAmount == 1
MaxFee == 1
\* what every account holds of each asset at the start
InitBalance == 3
\* how far a supply may grow above its initial value
MaxExtraMint == 1

\* ------------------------------------------------------------ pool: state
VARIABLES
    balances,   \* bank: account or module -> denom -> amount
    supply,     \* bank: denom -> total supply
    store,      \* KVStore under SendToEthereumKey: key -> SendToEthereum
    lastID,     \* KVStore under LastSendToEthereumIDKey (0: no value stored)
    issued,     \* the requests callers have been handed so far
    last,       \* the keeper / codec call just made and how it ended
    ckpt,       \* the inputs and the outcome of the last GetCheckpoint call
    confirm     \* the Confirm message, the method last called on it, its result

vars == <<balances, supply, store, lastID, issued, last, ckpt, confirm>>

\* ------------------------------------------------------- addresses, denoms
\* Ethereum addresses are written as the bytes of their hex string.
CosmosERC20 == <<204, 1>>
EthERC20 == <<204, 2>>
Contracts == {CosmosERC20, EthERC20}

ModuleName == "gravity"
Accounts == {"cosmos1a", "cosmos1b"}
Receivers == {<<239, 1>>}

NativeDenom == <<"uatom">>
UnknownDenom == <<"unknown">>
GravityDenom(contract) == <<"gravity", contract>>

BankDenoms == {NativeDenom} \cup {GravityDenom(c) : c \in Contracts}
SubmitDenoms == {NativeDenom, GravityDenom(EthERC20), UnknownDenom}

\* common.HexToAddress: the bytes left-padded with zeros to 20 bytes (a longer
\* input keeps its last 20 bytes).
AddressLength == 20
HexToAddress(bz) ==
    IF Len(bz) >= AddressLength
    THEN SubSeq(bz, Len(bz) - AddressLength + 1, Len(bz))
    ELSE [i \in 1..(AddressLength - Len(bz)) |-> 0] \o bz

\* bytes.Compare on two byte strings of the same length
RECURSIVE BytesLess(_, _)
BytesLess(a, b) ==
    IF a = <<>> \/ b = <<>> THEN FALSE
    ELSE IF Head(a) # Head(b) THEN Head(a) < Head(b)
    ELSE BytesLess(Tail(a), Tail(b))

\* ------------------------------------------------------------ asset lookup
\* the cosmos-originated denom <-> ERC20 index of the keeper
DenomToERC20Lookup(denom) ==
    IF Len(denom) = 2 /\ denom[1] = "gravity"
    THEN [err |-> FALSE, isCosmosOriginated |-> FALSE, tokenContract |-> denom[2]]
    ELSE IF denom = NativeDenom
    THEN [err |-> FALSE, isCosmosOriginated |-> TRUE, tokenContract |-> CosmosERC20]
    ELSE [err |-> TRUE, isCosmosOriginated |-> FALSE, tokenContract |-> <<>>]

ERC20ToDenomLookup(contract) ==
    IF contract = CosmosERC20
    THEN [isCosmosOriginated |-> TRUE, denom |-> NativeDenom]
    ELSE [isCosmosOriginated |-> FALSE, denom |-> GravityDenom(contract)]

\* ------------------------------------------------------------------ coins
Coin(denom, amount) == [denom |-> denom, amount |-> amount]
NewSDKIntERC20Token(amount, contract) == [contract |-> contract, amount |-> amount]
\* ERC20Token.GravityCoin: the token as a coin of the contract's voucher denom
GravityCoin(token) == Coin(GravityDenom(token.contract), token.amount)

\* ------------------------------------------------------------------- bank
HasCoins(bal, who, coin) == bal[who][coin.denom] >= coin.amount
Move(bal, from, to, coin) ==
    [bal EXCEPT ![from][coin.denom] = @ - coin.amount,
                ![to][coin.denom] = @ + coin.amount]

\* ------------------------------------------------------------------ store
\* types.GetSendToEthereumKey(id, fee): contract bytes, fee amount, id
GetSendToEthereumKey(id, fee) == <<HexToAddress(fee.contract), fee.amount, id>>

KeyLess(k1, k2) ==
    \/ BytesLess(k1[1], k2[1])
    \/ k1[1] = k2[1] /\ k1[2] < k2[2]
    \/ k1[1] = k2[1] /\ k1[2] = k2[2] /\ k1[3] < k2[3]

StoreSet(st, key, val) == [k \in DOMAIN st \cup {key} |-> IF k = key THEN val ELSE st[k]]
StoreDelete(st, key) == [k \in DOMAIN st \ {key} |-> st[k]]

SetUnbatchedSendToEthereum(st, ste) ==
    StoreSet(st, GetSendToEthereumKey(ste.Id, ste.Erc20Fee), ste)

\* the key built without the fee amount
DeleteWithoutFeeAmount(st, id, fee) ==
    StoreDelete(st, GetSendToEthereumKey(id, NewSDKIntERC20Token(0, fee.contract)))

DeleteUnbatchedSendToEthereum(st, id, fee) ==
    StoreDelete(st, GetSendToEthereumKey(id, fee))

\* the keys of a set in descending order (a ReverseIterator's order)
RECURSIVE Descending(_)
Descending(keys) ==
    IF keys = {} THEN <<>>
    ELSE LET top == CHOOSE k \in keys : \A o \in keys \ {k} : KeyLess(o, k)
         IN <<top>> \o Descending(keys \ {top})

RECURSIVE Ascending(_)
Ascending(keys) ==
    IF keys = {} THEN <<>>
    ELSE LET low == CHOOSE k \in keys : \A o \in keys \ {k} : KeyLess(k, o)
         IN <<low>> \o Ascending(keys \ {low})

ForwardIterator(keys) == Ascending(keys)
ReverseIterator(keys) == Descending(keys)

\* the sequence of entries the callback sees when it never stops the iteration
IterateUnbatchedSendToEthereumsByContract(st, contract) ==
    LET keys == {k \in DOMAIN st : k[1] = HexToAddress(contract)}
        order == ReverseIterator(keys)
    IN [i \in 1..Len(order) |-> st[order[i]]]

IterateUnbatchedSendToEthereums(st) ==
    LET order == ReverseIterator(DOMAIN st)
    IN [i \in 1..Len(order) |-> st[order[i]]]

GetUnbatchedSendToEthereums(st) == IterateUnbatchedSendToEthereums(st)

\* ------------------------------------------------------------ id counter
\* the counter read back as absent once it holds a value
IncrementFromAbsent(id) == 1
IncrementLastSendToEthereumIDKey(id) == id + 1

\* ------------------------------------------------------------- call record
\* op: the call; result: "ok", "error" (an error value is returned) or "panic";
\* at: the statement that failed; id: the id returned
Call(op, result, at, id) == [op |-> op, result |-> result, at |-> at, id |-> id]

NoCkpt == [kind |-> "none", gravityID |-> <<>>, tx |-> <<>>, result |-> "none",
           encoded |-> <<>>, digest |-> <<>>]

\* the keeper's and the bank's state as one value
Keeper(bal, sup, st, id) == [balances |-> bal, supply |-> sup, store |-> st, lastID |-> id]

Pending(st) == {st[key] : key \in DOMAIN st}
Total(ste) == ste.Erc20Token.amount + ste.Erc20Fee.amount

InitSupply == [d \in BankDenoms |->
                 IF d = GravityDenom(CosmosERC20) THEN 0
                 ELSE InitBalance * Cardinality(Accounts)]

PoolInit ==
    /\ balances = [w \in Accounts \cup {ModuleName} |->
                     [d \in BankDenoms |->
                        IF w = ModuleName \/ d = GravityDenom(CosmosERC20)
                        THEN 0 ELSE InitBalance]]
    /\ supply = InitSupply
    /\ store = << >>
    /\ lastID = 0
    /\ issued = {}
    /\ last = Call("init", "ok", "none", 0)

\* a panic unwinds the keeper: nothing runs after it
Running == last.result # "panic" /\ ckpt.result # "panic"

\* -------------------------------------------------- CreateSendToEthereum
\* The call on keeper state k; refuse: "burn" when the bank refuses to burn
\* in this call, else "none". The result holds the state the call leaves, how
\* it ended, the id returned and the request stored.
CreateSendToEthereum(k, sender, counterpartReceiver, amount, fee, refuse) ==
    LET total == amount.amount + fee.amount
        totalAmount == Coin(amount.denom, total)
        look == DenomToERC20Lookup(totalAmount.denom)
        sendFails == ~HasCoins(k.balances, sender, totalAmount)
        moved == Move(k.balances, sender, ModuleName, totalAmount)
        burnFails == refuse = "burn"
        nextID == IncrementLastSendToEthereumIDKey(k.lastID)
        ste == [Id |-> nextID, Sender |-> sender,
                EthereumRecipient |-> counterpartReceiver,
                Erc20Token |-> NewSDKIntERC20Token(amount.amount, look.tokenContract),
                Erc20Fee |-> NewSDKIntERC20Token(fee.amount, look.tokenContract)]
        done(k2, result, at, id) ==
            [k |-> k2, result |-> result, at |-> at, id |-> id, ste |-> ste]
    IN
    IF amount.denom # fee.denom
    THEN \* amount.Add(fee) panics on two denominations
         done(k, "panic", "add", 0)
    ELSE IF look.err
    THEN done(k, "error", "lookup", 0)
    ELSE IF sendFails
    THEN done(k, "panic", "send", 0)
    ELSE IF ~look.isCosmosOriginated /\ burnFails
    THEN done([k EXCEPT !.balances = moved], "panic", "burn", 0)
    ELSE LET burned == [moved EXCEPT ![ModuleName][totalAmount.denom] = @ - total]
             k2 == [balances |-> IF look.isCosmosOriginated THEN moved ELSE burned,
                    supply |-> IF look.isCosmosOriginated THEN k.supply
                               ELSE [k.supply EXCEPT ![totalAmount.denom] = @ - total],
                    store |-> SetUnbatchedSendToEthereum(k.store, ste),
                    lastID |-> nextID]
         IN done(k2, "ok", "none", nextID)

\* -------------------------------------------------- CancelSendToEthereum
\* refuse: the bank step ("mint", "refund") the bank refuses in this call, if any
CancelSendToEthereum(k, send, refuse) ==
    LET gc == GravityCoin(send.Erc20Token)
        totalToRefund == Coin(gc.denom, gc.amount + send.Erc20Fee.amount)
        look == ERC20ToDenomLookup(send.Erc20Token.contract)
        sender == send.Sender
        mints == ~look.isCosmosOriginated
        minted == IF mints
                  THEN [k EXCEPT !.balances[ModuleName][totalToRefund.denom] =
                                      @ + totalToRefund.amount,
                                 !.supply[totalToRefund.denom] = @ + totalToRefund.amount]
                  ELSE k
        refundFails == refuse = "refund"
                         \/ ~HasCoins(minted.balances, ModuleName, totalToRefund)
        done(k2, result, at) == [k |-> k2, result |-> result, at |-> at]
    IN
    IF mints /\ refuse = "mint"
    THEN done(k, "error", "mint")
    ELSE IF refundFails
    THEN done(minted, "error", "refund")
    ELSE done([minted EXCEPT
                 !.balances = Move(minted.balances, ModuleName, sender, totalToRefund),
                 !.store = DeleteUnbatchedSendToEthereum(minted.store, send.Id,
                                                         send.Erc20Fee)],
              "ok", "none")

\* ----------------------------------------------------------- pool: actions
Now == Keeper(balances, supply, store, lastID)
Becomes(k) ==
    /\ balances' = k.balances
    /\ supply' = k.supply
    /\ store' = k.store
    /\ lastID' = k.lastID

\* a request made up under an id not issued yet
MadeUpSend ==
    [Id |-> lastID + 1, Sender |-> "cosmos1b", EthereumRecipient |-> <<239, 1>>,
     Erc20Token |-> NewSDKIntERC20Token(SendAmount, EthERC20),
     Erc20Fee |-> NewSDKIntERC20Token(0, EthERC20)]

\* the requests a caller can hand to CancelSendToEthereum: one it was handed
\* before (pending or not), or the made-up one
Sends == issued \cup {MadeUpSend}

\* the denominations of the amount and of the fee of a submit
DenomPairs ==
    {<<d, d>> : d \in SubmitDenoms}
        \cup {<<NativeDenom, GravityDenom(EthERC20)>>, <<GravityDenom(EthERC20), NativeDenom>>}

SubmitWith(sender, receiver, amount, fee, refuse) ==
    LET r == CreateSendToEthereum(Now, sender, receiver, amount, fee, refuse)
    IN /\ Running
       /\ lastID < MaxSubmits
       /\ Becomes(r.k)
       /\ last' = Call("create", r.result, r.at, r.id)
       /\ issued' = (IF r.result = "ok" THEN issued \cup {r.ste} ELSE issued)
       /\ UNCHANGED <<ckpt, confirm>>

CancelWith(send, refuse) ==
    LET r == CancelSendToEthereum(Now, send, refuse)
        denom == GravityDenom(send.Erc20Token.contract)
    IN /\ Running
       /\ r.k.supply[denom] <= InitSupply[denom] + MaxExtraMint
       /\ Becomes(r.k)
       /\ last' = Call("cancel", r.result, r.at, 0)
       /\ UNCHANGED <<issued, ckpt, confirm>>

Submit ==
    \E sender \in Accounts, receiver \in Receivers, dd \in DenomPairs,
       f \in 0..MaxFee, refuse \in {"none", "burn"} :
        SubmitWith(sender, receiver, Coin(dd[1], SendAmount), Coin(dd[2], f), refuse)

Cancel ==
    \E send \in Sends, refuse \in {"none", "mint", "refund"} :
        CancelWith(send, refuse)

\* no method of a Confirm called yet
NoConfirm == [msg |-> [kind |-> "none"], op |-> "none", result |-> "none"]

Init == PoolInit /\ ckpt = NoCkpt /\ confirm = NoConfirm
Next == Submit \/ Cancel
Spec == Init /\ [][Next]_vars

\* ------------------------------------------------------- checkpoint codec
\* Byte strings are sequences of 0..255; a word is 32 bytes.
WordLength == 32
Zeros(n) == [i \in 1..n |-> 0]
Rep(b, n) == [i \in 1..n |-> b]

\* a non-negative number as big-endian bytes, without leading zeros
RECURSIVE BigEndian(_)
BigEndian(n) == IF n = 0 THEN <<>> ELSE BigEndian(n \div 256) \o <<n % 256>>

LeftPad(bz) == Zeros(WordLength - Len(bz)) \o bz
RightPad(bz) == bz \o Zeros(WordLength - Len(bz))

\* copy(dst[:], src) into a zeroed [32]byte: at most 32 bytes are copied
CopyToFixed(bz) ==
    IF Len(bz) >= WordLength THEN SubSeq(bz, 1, WordLength) ELSE RightPad(bz)

\* strToFixByteArray: an error when the string is longer than 32 bytes
strToFixByteArray(str) ==
    IF Len(str) > WordLength
    THEN [err |-> TRUE, bytes |-> <<>>]
    ELSE [err |-> FALSE, bytes |-> RightPad(str)]

\* the ABI word of a uint256 given as a *big.Int built from a non-negative number
PackUint(n) == LeftPad(BigEndian(n))
PackAddress(addr) == LeftPad(addr)

\* big.NewInt(int64(u)) for a uint64 u given as its 8 big-endian bytes, packed
\* as a uint256: the int64 has the bits of u, so it is negative from 2^63 on,
\* and packing takes it modulo 2^256 (the sign is extended)
PackInt64OfUint64(u8) == Rep(IF u8[1] >= 128 THEN 255 ELSE 0, WordLength - Len(u8)) \o u8

\* a dynamic array of static words: its length, then the words
PackArray(words) == <<PackUint(Len(words))>> \o words

\* a dynamic bytes value: its length, then the bytes padded to whole words
RECURSIVE Chunks(_)
Chunks(bz) ==
    IF bz = <<>> THEN <<>>
    ELSE IF Len(bz) <= WordLength THEN <<RightPad(bz)>>
    ELSE <<SubSeq(bz, 1, WordLength)>> \o Chunks(SubSeq(bz, WordLength + 1, Len(bz)))
PackBytes(bz) == <<PackUint(Len(bz))>> \o Chunks(bz)

\* Arguments.Pack: args is a sequence of [dynamic, words]; a static argument
\* puts its word in the head, a dynamic one its offset (in bytes, from the
\* start of the head) and its words in the tail, in argument order
RECURSIVE TailBefore(_, _)
TailBefore(args, i) ==
    IF i <= 1 THEN 0
    ELSE TailBefore(args, i - 1)
            + (IF args[i - 1].dynamic THEN Len(args[i - 1].words) ELSE 0)

RECURSIVE Flatten(_)
Flatten(seqs) == IF seqs = <<>> THEN <<>> ELSE Head(seqs) \o Flatten(Tail(seqs))

PackArgs(args) ==
    LET n == Len(args)
        head == [i \in 1..n |->
                   IF args[i].dynamic
                   THEN PackUint(WordLength * (n + TailBefore(args, i)))
                   ELSE args[i].words[1]]
        tails == [i \in 1..n |-> IF args[i].dynamic THEN args[i].words ELSE <<>>]
    IN head \o Flatten(tails)

Static(word) == [dynamic |-> FALSE, words |-> <<word>>]
Dynamic(words) == [dynamic |-> TRUE, words |-> words]

\* abi.Pack(name, args...): the method's 4-byte selector, then the arguments.
\* The encoding is kept as a sequence whose first element stands for the
\* 4 selector bytes and whose other elements are the 32-byte words.
Pack(method, args) == <<[selector |-> method]>> \o PackArgs(args)
DropSelector(packed) == Tail(packed)

\* crypto.Keccak256Hash, taken as collision-free: the digest stands for the
\* bytes hashed
Keccak256Hash(words) == [keccak256 |-> words]

\* []uint8("transactionBatch") and []uint8("logicCall")
BatchMethodNameBytes ==
    <<116, 114, 97, 110, 115, 97, 99, 116, 105, 111, 110, 66, 97, 116, 99, 104>>
\* the batch's method name pasted into the logic call
LogicCallMethodNamePasted == BatchMethodNameBytes
LogicCallMethodNameBytes == <<108, 111, 103, 105, 99, 67, 97, 108, 108>>

CheckpointResult(kind, gravityID, tx, result, encoded) ==
    [kind |-> kind, gravityID |-> gravityID, tx |-> tx, result |-> result,
     encoded |-> encoded,
     digest |-> IF result = "ok" THEN Keccak256Hash(encoded) ELSE <<>>]

\* the loop over b.Transactions: the three arrays, an entry at the index it has
\* in the batch
SerializeInOrder(txs) ==
    [txAmounts |-> [i \in 1..Len(txs) |-> PackUint(txs[i].Erc20Token.amount)],
     txDestinations |->
         [i \in 1..Len(txs) |-> PackAddress(HexToAddress(txs[i].EthereumRecipient))],
     txFees |-> [i \in 1..Len(txs) |-> PackUint(txs[i].Erc20Fee.amount)]]

\* the entries sorted by amount before they are serialized
SerializeSorted(txs) ==
    SerializeInOrder(SortSeq(txs, LAMBDA x, y : x.Erc20Token.amount < y.Erc20Token.amount))

SerializeTransactions(txs) == SerializeInOrder(txs)

\* BatchTx.GetCheckpoint with the method name argument methodNameBytes
BatchCheckpointWith(b, gravityIDstring, methodNameBytes) ==
    LET gravityID == strToFixByteArray(gravityIDstring)
        batchMethodName == CopyToFixed(methodNameBytes)
        serialized == SerializeTransactions(b.Transactions)
        abiEncodedBatch ==
            Pack("submitBatch",
                 <<Static(gravityID.bytes),
                   Static(batchMethodName),
                   Dynamic(PackArray(serialized.txAmounts)),
                   Dynamic(PackArray(serialized.txDestinations)),
                   Dynamic(PackArray(serialized.txFees)),
                   Static(PackInt64OfUint64(b.Nonce)),
                   Static(PackAddress(HexToAddress(b.TokenContract))),
                   Static(PackInt64OfUint64(b.Timeout))>>)
    IN IF gravityID.err
       THEN CheckpointResult("batch", gravityIDstring, b, "panic", <<>>)
       ELSE CheckpointResult("batch", gravityIDstring, b, "ok", DropSelector(abiEncodedBatch))

BatchGetCheckpoint(b, gravityIDstring) ==
    BatchCheckpointWith(b, gravityIDstring, BatchMethodNameBytes)

\* LogicCallTx.GetCheckpoint with the method name argument methodNameBytes
LogicCallCheckpointWith(c, gravityIDstring, methodNameBytes) ==
    LET logicCallMethodName == CopyToFixed(methodNameBytes)
        gravityID == strToFixByteArray(gravityIDstring)
        transferAmounts == [i \in 1..Len(c.Tokens) |-> PackUint(c.Tokens[i].Amount)]
        transferTokenContracts ==
            [i \in 1..Len(c.Tokens) |-> PackAddress(HexToAddress(c.Tokens[i].Denom))]
        feeAmounts == [i \in 1..Len(c.Fees) |-> PackUint(c.Fees[i].Amount)]
        feeTokenContracts ==
            [i \in 1..Len(c.Fees) |-> PackAddress(HexToAddress(c.Fees[i].Denom))]
        invalidationID == CopyToFixed(c.InvalidationId)
        abiEncodedCall ==
            Pack("checkpoint",
                 <<Static(gravityID.bytes),
                   Static(logicCallMethodName),
                   Dynamic(PackArray(transferAmounts)),
                   Dynamic(PackArray(transferTokenContracts)),
                   Dynamic(PackArray(feeAmounts)),
                   Dynamic(PackArray(feeTokenContracts)),
                   Static(PackAddress(HexToAddress(c.LogicContractAddress))),
                   Dynamic(PackBytes(c.Payload)),
                   Static(PackInt64OfUint64(c.Timeout)),
                   Static(invalidationID),
                   Static(PackInt64OfUint64(c.InvalidationNonce))>>)
    IN IF gravityID.err
       THEN CheckpointResult("logicCall", gravityIDstring, c, "panic", <<>>)
       ELSE CheckpointResult("logicCall", gravityIDstring, c, "ok",
                             DropSelector(abiEncodedCall))

LogicCallGetCheckpoint(c, gravityIDstring) ==
    LogicCallCheckpointWith(c, gravityIDstring, LogicCallMethodNameBytes)

\* ----------------------------------------------------------- codec: inputs
\* the most entries of a batch, and tokens or fees of a logic call
MaxEntries == 2

\* chain identifiers: "", "g", and 'g' repeated 32 and 33 times
GravityIDs == {Rep(103, n) : n \in {0, 1, WordLength, WordLength + 1}}

\* uint64 values as their 8 big-endian bytes: 7, 1000 and 2^63
Uint64s == {<<0, 0, 0, 0, 0, 0, 0, 7>>, <<0, 0, 0, 0, 0, 0, 3, 232>>,
            <<128, 0, 0, 0, 0, 0, 0, 0>>}

SeqsUpTo(S, n) == UNION {[1..m -> S] : m \in 0..n}

\* the requests a batch is assembled from: two that differ in their id only,
\* and one of another amount
BatchEntries ==
    {[Id |-> ia[1],
      EthereumRecipient |-> <<239, 1>>,
      Erc20Token |-> NewSDKIntERC20Token(ia[2], c),
      Erc20Fee |-> NewSDKIntERC20Token(f, c)] :
        ia \in {<<1, 100>>, <<2, 100>>, <<3, 300>>}, f \in {5}, c \in {EthERC20}}

\* a request is in a batch at most once
BatchTransactions ==
    {txs \in SeqsUpTo(BatchEntries, MaxEntries) :
        \A i, j \in 1..Len(txs) : i # j => txs[i].Id # txs[j].Id}

Batches ==
    {[TokenContract |-> EthERC20, Nonce |-> nonce, Timeout |-> timeout,
      Transactions |-> txs] :
        nonce \in Uint64s, timeout \in Uint64s, txs \in BatchTransactions}

CallCoins == {[Denom |-> EthERC20, Amount |-> a] : a \in {100}}

LogicCalls ==
    {[Tokens |-> tokens, Fees |-> fees, LogicContractAddress |-> <<170, 1>>,
      Payload |-> payload, Timeout |-> timeout, InvalidationId |-> invalidationId,
      InvalidationNonce |-> invalidationNonce] :
        tokens \in SeqsUpTo(CallCoins, MaxEntries), fees \in SeqsUpTo(CallCoins, 1),
        payload \in {<<>>, Rep(1, WordLength + 1)}, timeout \in {<<0, 0, 0, 0, 0, 0, 3, 232>>},
        invalidationId \in {<<1>>, Rep(2, WordLength + 1)},
        invalidationNonce \in Uint64s}

\* ---------------------------------------------------------- codec: actions
BatchCheckpoint ==
    \E b \in Batches, gravityID \in GravityIDs :
        /\ Running
        /\ ckpt' = BatchGetCheckpoint(b, gravityID)
        /\ UNCHANGED <<balances, supply, store, lastID, issued, last, confirm>>

LogicCallCheckpoint ==
    \E c \in LogicCalls, gravityID \in GravityIDs :
        /\ Running
        /\ ckpt' = LogicCallGetCheckpoint(c, gravityID)
        /\ UNCHANGED <<balances, supply, store, lastID, issued, last, confirm>>

NextCodec == BatchCheckpoint \/ LogicCallCheckpoint
SpecCodec == Init /\ [][NextCodec]_vars

\* ---------------------------------------------------------------- confirms
\* Strings a Confirm carries are sequences of one-character strings.
HexDigits == {"0", "1", "2", "3", "4", "5", "6", "7", "8", "9",
              "a", "b", "c", "d", "e", "f", "A", "B", "C", "D", "E", "F"}

\* hex.DecodeString: an error for a string of odd length or with a character
\* that is no hexadecimal digit
hexDecodeStringErr(str) ==
    \/ Len(str) % 2 # 0
    \/ \E i \in 1..Len(str) : str[i] \notin HexDigits

\* sdk.AccAddressFromBech32: an error unless the string is an account address
AccAddressFromBech32Err(address) == address \notin Accounts

\* ValidateEthAddress: nil for "0x" followed by 40 hexadecimal digits
ValidateEthAddressErr(address) ==
    ~ /\ Len(address) = 2 + 2 * AddressLength
      /\ address[1] = "0" /\ address[2] = "x"
      /\ \A i \in 3..Len(address) : address[i] \in HexDigits

\* ConfirmBatch.Validate
ConfirmBatchValidate(msg) ==
    IF AccAddressFromBech32Err(msg.OrchestratorAddress) THEN "ErrInvalidAddress"
    ELSE IF ValidateEthAddressErr(msg.EthSigner) THEN "eth signer"
    ELSE IF ValidateEthAddressErr(msg.TokenContract) THEN "token contract"
    ELSE IF hexDecodeStringErr(msg.Signature) THEN "could not decode hex string: signature"
    ELSE "nil"

\* ConfirmLogicCall.Validate
ConfirmLogicCallValidate(msg) ==
    IF AccAddressFromBech32Err(msg.OrchestratorAddress) THEN "ErrInvalidAddress"
    ELSE IF ValidateEthAddressErr(msg.EthSigner) THEN "eth signer"
    ELSE IF hexDecodeStringErr(msg.Signature) THEN "could not decode hex string: signature"
    ELSE IF hexDecodeStringErr(msg.InvalidationId)
         THEN "could not decode hex string: invalidation id"
    ELSE "nil"

\* ConfirmValset.Validate
ConfirmValsetValidate(msg) ==
    IF AccAddressFromBech32Err(msg.OrchestratorAddress) THEN "ErrInvalidAddress"
    ELSE IF ValidateEthAddressErr(msg.EthAddress) THEN "ethereum address"
    ELSE "nil"

\* Confirm.Validate, by the type of the message
Validate(msg) ==
    CASE msg.kind = "batch" -> ConfirmBatchValidate(msg)
      [] msg.kind = "logic_Call" -> ConfirmLogicCallValidate(msg)
      [] msg.kind = "valset" -> ConfirmValsetValidate(msg)

\* Confirm.GetType
GetType(msg) == msg.kind

\* Confirm.GetNonce: the field of a batch or valset confirm, 0 for a logic
\* call
GetNonce(msg) == IF msg.kind = "logic_Call" THEN 0 ELSE msg.Nonce

\* Confirm.GetTokenContract: the field of a batch confirm, "" for the others
GetTokenContract(msg) == IF msg.kind = "batch" THEN msg.TokenContract ELSE <<>>

\* Confirm.GetInvalidationId: the field of a logic call confirm, "" for the
\* others
GetInvalidationId(msg) == IF msg.kind = "logic_Call" THEN msg.InvalidationId ELSE <<>>

\* Confirm.GetInvalidationNonce: the field of a logic call confirm, 0 for the
\* others
GetInvalidationNonce(msg) == IF msg.kind = "logic_Call" THEN msg.InvalidationNonce ELSE 0

\* --------------------------------------------------------- confirms: inputs
Chars(c, n) == [i \in 1..n |-> c]
GoodEthAddress == <<"0", "x">> \o Chars("c", 2 * AddressLength)
\* an address without the 0x, one a digit short, one with a letter beyond f
EthAddresses ==
    {GoodEthAddress,
     Chars("c", 2 * AddressLength),
     <<"0", "x">> \o Chars("c", 2 * AddressLength - 1),
     <<"0", "x">> \o Chars("g", 2 * AddressLength)}
OrchestratorAddresses == {"cosmos1a", "not-bech32"}
\* "ab12", "", "not-hex", "abc"
Signatures == {<<"a", "b", "1", "2">>, <<>>, <<"n", "o", "t", "-", "h", "e", "x">>,
               <<"a", "b", "c">>}
InvalidationIds == {<<>>, <<"0", "a">>, <<"z", "z">>}
ConfirmNonces == {0, 1}

ConfirmBatches ==
    {[kind |-> "batch", Nonce |-> n, TokenContract |-> t, EthSigner |-> e,
      OrchestratorAddress |-> o, Signature |-> sig] :
        n \in ConfirmNonces, t \in {GoodEthAddress, <<>>}, e \in EthAddresses,
        o \in OrchestratorAddresses, sig \in Signatures}

ConfirmLogicCalls ==
    {[kind |-> "logic_Call", InvalidationId |-> id, InvalidationNonce |-> n,
      EthSigner |-> e, OrchestratorAddress |-> o, Signature |-> sig] :
        id \in InvalidationIds, n \in ConfirmNonces, e \in EthAddresses,
        o \in OrchestratorAddresses, sig \in Signatures}

ConfirmValsets ==
    {[kind |-> "valset", Nonce |-> n, EthAddress |-> e,
      OrchestratorAddress |-> o, Signature |-> sig] :
        n \in ConfirmNonces, e \in EthAddresses,
        o \in OrchestratorAddresses, sig \in Signatures}

Confirms == ConfirmBatches \cup ConfirmLogicCalls \cup ConfirmValsets

\* -------------------------------------------------------- confirms: actions
Called(msg, op, result) ==
    /\ Running
    /\ confirm' = [msg |-> msg, op |-> op, result |-> result]
    /\ UNCHANGED <<balances, supply, store, lastID, issued, last, ckpt>>

CallValidate == \E msg \in Confirms : Called(msg, "Validate", Validate(msg))
CallGetType == \E msg \in Confirms : Called(msg, "GetType", GetType(msg))
CallGetNonce == \E msg \in Confirms : Called(msg, "GetNonce", GetNonce(msg))
CallGetTokenContract ==
    \E msg \in Confirms : Called(msg, "GetTokenContract", GetTokenContract(msg))
CallGetInvalidationId ==
    \E msg \in Confirms : Called(msg, "GetInvalidationId", GetInvalidationId(msg))
CallGetInvalidationNonce ==
    \E msg \in Confirms : Called(msg, "GetInvalidationNonce", GetInvalidationNonce(msg))

NextConfirm ==
    \/ CallValidate
    \/ CallGetType
    \/ CallGetNonce
    \/ CallGetTokenContract
    \/ CallGetInvalidationId
    \/ CallGetInvalidationNonce
SpecConfirm == Init /\ [][NextConfirm]_vars

\* ------------------------------------------------------------ pool: claims
Range(seq) == {seq[i] : i \in 1..Len(seq)}
SameDenomPairs == {dd \in DenomPairs : dd[1] = dd[2]}
After == Keeper(balances', supply', store', lastID')

\* C1: a successful submit followed at once by the cancel of the request it
\* created (the bank refusing nothing) succeeds and leaves the sender's balance
\* in the submitted denomination at its value before the submit, for
\* foreign-originated and for native assets.
C1_SubmitThenCancelRestores ==
    [][\A sender \in Accounts, receiver \in Receivers, dd \in SameDenomPairs,
          f \in 0..MaxFee :
          LET made == CreateSendToEthereum(Now, sender, receiver,
                                           Coin(dd[1], SendAmount), Coin(dd[2], f), "none")
              undone == CancelSendToEthereum(After, made.ste, "none")
          IN (SubmitWith(sender, receiver, Coin(dd[1], SendAmount), Coin(dd[2], f), "none")
                /\ last'.result = "ok")
             => /\ undone.result = "ok"
                /\ undone.k.balances[sender][dd[1]] = balances[sender][dd[1]]]_vars

\* C1, on the burn/mint path alone: the same for foreign-originated assets.
C1_VoucherSubmitThenCancelRestores ==
    [][\A sender \in Accounts, receiver \in Receivers, f \in 0..MaxFee :
          LET d == GravityDenom(EthERC20)
              made == CreateSendToEthereum(Now, sender, receiver,
                                           Coin(d, SendAmount), Coin(d, f), "none")
              undone == CancelSendToEthereum(After, made.ste, "none")
          IN (SubmitWith(sender, receiver, Coin(d, SendAmount), Coin(d, f), "none")
                /\ last'.result = "ok")
             => /\ undone.result = "ok"
                /\ undone.k.balances[sender][d] = balances[sender][d]
                /\ undone.k.supply = supply]_vars

\* C2: a cancel of a request whose id is not in the pending pool returns an
\* error and changes no balance, no supply and no pool entry.
C2_CancelOnlyPending ==
    [][\A send \in Sends, refuse \in {"none", "mint", "refund"} :
          (CancelWith(send, refuse) /\ ~\E e \in Pending(store) : e.Id = send.Id)
          => /\ last'.result = "error"
             /\ UNCHANGED <<balances, supply, store>>]_vars

\* in every state: no id is given to two requests, at most one pending request
\* has a given id, and the id last returned is the counter's value
C3_IdsState ==
    /\ \A e \in issued : e.Id \in 1..lastID
    /\ \A e1, e2 \in issued : e1.Id = e2.Id => e1 = e2
    /\ \A e1, e2 \in Pending(store) : e1.Id = e2.Id => e1 = e2
    /\ Cardinality(Pending(store)) = Cardinality(DOMAIN store)
    /\ Pending(store) \subseteq issued
    /\ (last.op = "create" /\ last.result = "ok") => last.id = lastID

\* in every step: a successful submit returns the id one above the counter and
\* above every id issued before; no other step moves the counter
C3_IdsStep ==
    /\ (last'.op = "create" /\ last'.result = "ok")
           => /\ lastID' = lastID + 1
              /\ last'.id = lastID + 1
              /\ \A e \in issued : e.Id < last'.id
    /\ ~(last'.op = "create" /\ last'.result = "ok") => lastID' = lastID

\* C3: the ids returned by successful submits start at 1 and grow by one per
\* submit, cancel never moves the counter, and ids are never shared.
C3_IdsStrictlyIncreasing ==
    /\ lastID = 0
    /\ []C3_IdsState
    /\ [][C3_IdsStep]_vars

\* a submit that got id 2 after the request with id 1 was cancelled
C3_Witness ==
    /\ last.op = "create" /\ last.result = "ok" /\ last.id = 2
    /\ \E e \in issued : e.Id = 1 /\ e \notin Pending(store)

\* C4: a submit whose debit the bank rejects (too small a balance, or a failing
\* burn) returns an error and leaves counter, pool and balances as they were.
C4_RejectedDebitReturnsError ==
    [][\A sender \in Accounts, receiver \in Receivers, dd \in SameDenomPairs,
          f \in 0..MaxFee, refuse \in {"none", "burn"} :
          LET look == DenomToERC20Lookup(dd[1])
              rejected == \/ ~HasCoins(balances, sender, Coin(dd[1], SendAmount + f))
                          \/ ~look.isCosmosOriginated /\ refuse = "burn"
          IN (SubmitWith(sender, receiver, Coin(dd[1], SendAmount), Coin(dd[2], f), refuse)
                /\ ~look.err /\ rejected)
             => /\ last'.result = "error"
                /\ UNCHANGED <<balances, supply, store, lastID>>]_vars

\* C5: a cancel of a pending request in which a bank step fails returns an
\* error and leaves balances, supply and the pool as they were.
C5_CancelAllOrNothing ==
    [][\A send \in Sends, refuse \in {"none", "mint", "refund"} :
          (CancelWith(send, refuse) /\ send \in Pending(store) /\ last'.result # "ok")
          => /\ last'.result = "error"
             /\ UNCHANGED <<balances, supply, store>>]_vars

\* C6: per-contract iteration visits only pending requests of that contract,
\* each at most once, in an order of non-increasing fee.
C6_ByContractFeeDescending ==
    \A contract \in Contracts :
        LET seen == IterateUnbatchedSendToEthereumsByContract(store, contract)
        IN /\ \A i \in 1..Len(seen) :
                  /\ seen[i] \in Pending(store)
                  /\ seen[i].Erc20Token.contract = contract
           /\ \A i, j \in 1..Len(seen) : i # j => seen[i] # seen[j]
           /\ \A i \in 1..(Len(seen) - 1) :
                  seen[i].Erc20Fee.amount >= seen[i + 1].Erc20Fee.amount

\* two pending requests of one contract, the earlier one paying the higher fee
C6_Witness ==
    \E contract \in Contracts :
        LET seen == IterateUnbatchedSendToEthereumsByContract(store, contract)
        IN /\ Len(seen) = 2
           /\ seen[1].Erc20Fee.amount > seen[2].Erc20Fee.amount
           /\ seen[1].Id < seen[2].Id

\* C7: after a successful cancel of a pending request neither iteration returns
\* it, both still return every other pending request unchanged, and the id
\* counter is unchanged.
C7_CancelRemovesOnlyThatRequest ==
    [][(last'.op = "cancel" /\ last'.result = "ok")
       => \A send \in Pending(store), refuse \in {"none", "mint", "refund"} :
            CancelWith(send, refuse)
            => /\ send \notin Range(IterateUnbatchedSendToEthereums(store'))
               /\ \A c \in Contracts :
                      send \notin Range(IterateUnbatchedSendToEthereumsByContract(store', c))
               /\ \A e \in Pending(store) \ {send} :
                      /\ e \in Range(IterateUnbatchedSendToEthereums(store'))
                      /\ e \in Range(IterateUnbatchedSendToEthereumsByContract(
                                         store', e.Erc20Token.contract))
               /\ lastID' = lastID]_vars

\* a cancel has just removed one of two pending requests, every cancel so far
\* having been of a pending request (no supply was minted beyond the start)
C7_Witness ==
    /\ last.op = "cancel" /\ last.result = "ok"
    /\ Cardinality(issued) = 2
    /\ Cardinality(Pending(store)) = 1
    /\ \A d \in BankDenoms : supply[d] <= InitSupply[d]

\* C8: a submit whose amount and fee are of two denominations returns an error
\* and leaves counter, pool and balances as they were.
C8_MismatchReturnsError ==
    [][\A sender \in Accounts, receiver \in Receivers, dd \in DenomPairs \ SameDenomPairs,
          f \in 0..MaxFee, refuse \in {"none", "burn"} :
          SubmitWith(sender, receiver, Coin(dd[1], SendAmount), Coin(dd[2], f), refuse)
          => /\ last'.result = "error"
             /\ UNCHANGED <<balances, supply, store, lastID>>]_vars

\* ----------------------------------------------------------- codec: claims
\* C9: with a chain identifier longer than 32 bytes GetCheckpoint, of a batch
\* and of a logic call, ends with an error value returned to the caller.
C9_TooLongIdentifierReturnsError ==
    (ckpt.kind # "none" /\ Len(ckpt.gravityID) > WordLength) => ckpt.result = "error"

\* C10: the second word of a batch encoding is "transactionBatch", that of a
\* logic call encoding is "logicCall", the two tags differ, the same artifact
\* encoded under the other tag has another digest, and no batch checkpoint
\* equals a logic call checkpoint under the same chain identifier.
C10_DomainTagsSeparateKinds ==
    /\ CopyToFixed(BatchMethodNameBytes) # CopyToFixed(LogicCallMethodNameBytes)
    /\ (ckpt.kind = "batch" /\ ckpt.result = "ok")
         => /\ ckpt.encoded[2] = CopyToFixed(BatchMethodNameBytes)
            /\ BatchCheckpointWith(ckpt.tx, ckpt.gravityID, LogicCallMethodNameBytes).digest
                 # ckpt.digest
            /\ \A c \in LogicCalls :
                 LogicCallGetCheckpoint(c, ckpt.gravityID).digest # ckpt.digest
    /\ (ckpt.kind = "logicCall" /\ ckpt.result = "ok")
         => /\ ckpt.encoded[2] = CopyToFixed(LogicCallMethodNameBytes)
            /\ LogicCallCheckpointWith(ckpt.tx, ckpt.gravityID, BatchMethodNameBytes).digest
                 # ckpt.digest
            /\ \A b \in Batches :
                 BatchGetCheckpoint(b, ckpt.gravityID).digest # ckpt.digest

\* the checkpoint of a logic call without tokens, fees or payload, under a
\* chain identifier of 32 bytes
C10_Witness ==
    /\ ckpt.kind = "logicCall" /\ ckpt.result = "ok"
    /\ Len(ckpt.gravityID) = WordLength
    /\ ckpt.tx.Tokens = <<>> /\ ckpt.tx.Fees = <<>> /\ ckpt.tx.Payload = <<>>
    /\ ckpt.encoded[2] = CopyToFixed(LogicCallMethodNameBytes)

\* the batch b with its entries in the order p[1], p[2], ...
Reordered(b, p) ==
    [b EXCEPT !.Transactions = [i \in 1..Len(b.Transactions) |-> b.Transactions[p[i]]]]

\* the reorderings of the entries of b: the orders that give another array
Reorderings(b) ==
    {p \in Permutations(1..Len(b.Transactions)) :
        Reordered(b, p).Transactions # b.Transactions}

\* what the encoding takes from an entry
Encoded(tx) ==
    <<tx.Erc20Token.amount, HexToAddress(tx.EthereumRecipient), tx.Erc20Fee.amount>>
EncodedEntries(b) == [i \in 1..Len(b.Transactions) |-> Encoded(b.Transactions[i])]

\* C11: the checkpoint of a batch differs from the checkpoint of the same
\* batch with its entries in any other order.
C11_ReorderingChangesDigest ==
    (ckpt.kind = "batch" /\ ckpt.result = "ok")
    => \A p \in Reorderings(ckpt.tx) :
          BatchGetCheckpoint(Reordered(ckpt.tx, p), ckpt.gravityID).digest # ckpt.digest

\* C11, amended: the checkpoint of a batch differs from the checkpoint of the
\* same batch with its entries in an order that changes the sequence of
\* (amount, destination address, fee amount) of the entries, and the arrays of
\* the encoding follow the order of the entries.
C11_ReorderingOfEncodedFieldsChangesDigest ==
    (ckpt.kind = "batch" /\ ckpt.result = "ok")
    => /\ \A p \in Reorderings(ckpt.tx) :
             EncodedEntries(Reordered(ckpt.tx, p)) # EncodedEntries(ckpt.tx)
             => BatchGetCheckpoint(Reordered(ckpt.tx, p), ckpt.gravityID).digest
                  # ckpt.digest
       /\ \A i \in 1..Len(ckpt.tx.Transactions) :
             \* word 9 is the length of the array of amounts, the amounts follow
             ckpt.encoded[9 + i] = PackUint(ckpt.tx.Transactions[i].Erc20Token.amount)

\* the checkpoint of a batch whose first entry has the larger amount
C11_Witness ==
    /\ ckpt.kind = "batch" /\ ckpt.result = "ok"
    /\ Len(ckpt.tx.Transactions) = 2
    /\ ckpt.tx.Transactions[1].Erc20Token.amount > ckpt.tx.Transactions[2].Erc20Token.amount

\* the ABI word of the uint256 equal to a uint64 given as its 8 big-endian bytes
Uint64AsUint256(u8) == Zeros(WordLength - Len(u8)) \o u8

\* C15: the nonce and the timeout of a batch, and the timeout and the
\* invalidation nonce of a logic call, are in the encoding as the non-negative
\* integer equal to the uint64 field, also from 2^63 on.
C15_Uint64FieldsEncodedAsTheirValue ==
    /\ (ckpt.kind = "batch" /\ ckpt.result = "ok")
         => /\ ckpt.encoded[6] = Uint64AsUint256(ckpt.tx.Nonce)
            /\ ckpt.encoded[8] = Uint64AsUint256(ckpt.tx.Timeout)
    /\ (ckpt.kind = "logicCall" /\ ckpt.result = "ok")
         => /\ ckpt.encoded[9] = Uint64AsUint256(ckpt.tx.Timeout)
            /\ ckpt.encoded[11] = Uint64AsUint256(ckpt.tx.InvalidationNonce)

\* -------------------------------------------------------- confirms: claims
WellFormedAddresses(msg) ==
    /\ ~AccAddressFromBech32Err(msg.OrchestratorAddress)
    /\ msg.kind = "batch"
         => ~ValidateEthAddressErr(msg.EthSigner) /\ ~ValidateEthAddressErr(msg.TokenContract)
    /\ msg.kind = "logic_Call" => ~ValidateEthAddressErr(msg.EthSigner)
    /\ msg.kind = "valset" => ~ValidateEthAddressErr(msg.EthAddress)

\* C12: Validate of a batch, logic call or valset confirm whose addresses are
\* well-formed and whose signature is not hexadecimal returns the error of an
\* undecodable signature.
C12_BadSignatureRejected ==
    (confirm.op = "Validate" /\ WellFormedAddresses(confirm.msg)
        /\ hexDecodeStringErr(confirm.msg.Signature))
    => confirm.result = "could not decode hex string: signature"

\* C12, for the batch and the logic call confirm alone.
C12_BatchAndLogicCallRejectBadSignature ==
    (confirm.op = "Validate" /\ confirm.msg.kind \in {"batch", "logic_Call"}
        /\ WellFormedAddresses(confirm.msg)
        /\ hexDecodeStringErr(confirm.msg.Signature))
    => confirm.result = "could not decode hex string: signature"

\* C13: an accessor of a field that the confirm's type does not have returns a
\* value that the accessor returns for no confirm that has the field: GetNonce
\* of a logic call confirm differs from GetNonce of every batch confirm (of
\* nonce 0 too), GetInvalidationId and GetInvalidationNonce of a batch or
\* valset confirm differ from those of every logic call confirm.
C13_NotApplicableIsDistinguishable ==
    /\ (confirm.op = "GetNonce" /\ confirm.msg.kind = "logic_Call")
         => \A m \in ConfirmBatches \cup ConfirmValsets : GetNonce(m) # confirm.result
    /\ (confirm.op = "GetInvalidationNonce" /\ confirm.msg.kind \in {"batch", "valset"})
         => \A m \in ConfirmLogicCalls : GetInvalidationNonce(m) # confirm.result
    /\ (confirm.op = "GetInvalidationId" /\ confirm.msg.kind \in {"batch", "valset"})
         => \A m \in ConfirmLogicCalls : GetInvalidationId(m) # confirm.result

\* ----------------------------------------------------- pool: conservation
RECURSIVE SumOfTotals(_)
SumOfTotals(sends) ==
    IF sends = <<>> THEN 0 ELSE Total(Head(sends)) + SumOfTotals(Tail(sends))

\* amount plus fee over the pending requests of a contract
PendingTotal(st, contract) ==
    SumOfTotals(IterateUnbatchedSendToEthereumsByContract(st, contract))

\* a cosmos-originated asset is in module custody to the amount pending; of an
\* Ethereum-originated asset the module holds nothing and the supply is below
\* its initial value by the amount pending
Conserved(bal, sup, st) ==
    \A contract \in Contracts :
        LET asset == ERC20ToDenomLookup(contract)
        IN IF asset.isCosmosOriginated
           THEN bal[ModuleName][asset.denom] = PendingTotal(st, contract)
           ELSE /\ bal[ModuleName][asset.denom] = 0
                /\ sup[asset.denom] = InitSupply[asset.denom] - PendingTotal(st, contract)

\* C14: the empty pool conserves funds, and every successful submit or cancel
\* made in a state that conserves funds leads to a state that conserves
\* funds: custody of a native asset equals the pending amounts plus fees, an
\* Ethereum-originated asset is never in custody and its supply is its
\* initial supply less the pending amounts plus fees.
C14_FundsConserved ==
    /\ Conserved(balances, supply, store)
    /\ [][(Conserved(balances, supply, store) /\ last'.result = "ok")
             => Conserved(balances', supply', store')]_vars

\* C14, for submits and for cancels of pending requests alone.
C14_FundsConservedByPendingCancels ==
    /\ Conserved(balances, supply, store)
    /\ [][(/\ Conserved(balances, supply, store)
           /\ last'.result = "ok"
           /\ \/ last'.op = "create"
              \/ \E send \in Pending(store), refuse \in {"none", "mint", "refund"} :
                     CancelWith(send, refuse))
             => Conserved(balances', supply', store')]_vars

====
